---------------------------- MODULE Spec2Model ----------------------------
(***************************************************************************)
(* A model of doordash_scraper.py: the page cache                          *)
(* (fetch_orders_persisted), the pagination and validation loop            *)
(* (fetch_all_orders), the flattening of order summaries into rows and     *)
(* the two CSV exports (execute).                                          *)
(*                                                                         *)
(* Python values decoded from JSON are tagged records, so that the code's  *)
(* dynamic tests (key in dict, x is None, truthiness) are computed as the  *)
(* interpreter computes them.  Strings are TLA+ strings; concatenation,    *)
(* slicing and substring search are computed on them.                      *)
(***************************************************************************)
EXTENDS Integers, Sequences, FiniteSets, TLC

VARIABLES
    store,          \* working directory: cache file name -> file content
    exports,        \* working directory: csv file name -> rows written
    pc,             \* position of the run inside execute / fetch_all_orders
    run,            \* number of the current invocation of execute
    offset,         \* fetch_all_orders: offset
    data,           \* fetch_all_orders: data (the decoded payload of the page)
    was_persisted,  \* fetch_all_orders: was_persisted
    pending,        \* fetch_all_orders: summaries of orders_history not yet yielded
    rows,           \* execute: rows
    raised,         \* the exception that ended the run, or NoException
    hist            \* per run, the sequence of observable events

vars == <<store, exports, pc, run, offset, data, was_persisted, pending,
          rows, raised, hist>>

---------------------------------------------------------------------------
(* Bounds of the model *)

\* number of invocations of execute against the same working directory
MaxRuns == 2

\* number of pages one run may request before the model stops following it
MaxPages == 3

---------------------------------------------------------------------------
(* JSON values as Python decodes them *)

JNull == [t |-> "null"]

JStr(s) == [t |-> "str", s |-> s]

JNum(n) == [t |-> "num", n |-> n]

JList(l) == [t |-> "list", items |-> l]

JObj(o) == [t |-> "obj", fields |-> o]

EmptyDict == [k \in {} |-> JNull]

\* bool(v)
Truthy(v) ==
    CASE v.t = "null" -> FALSE
      [] v.t = "str"  -> v.s # ""
      [] v.t = "num"  -> v.n # 0
      [] v.t = "list" -> v.items # <<>>
      [] v.t = "obj"  -> DOMAIN v.fields # {}

\* key in d, for a dict d
HasKey(d, key) == key \in DOMAIN d.fields

\* d.get(key): None when the key is absent
DictGet(d, key) == IF HasKey(d, key) THEN d.fields[key] ELSE JNull

\* sub in s, for strings
StrContains(sub_, s) ==
    \E i \in 1..(Len(s) - Len(sub_) + 1) : SubSeq(s, i, i + Len(sub_) - 1) = sub_

\* s[:n]
StrPrefix(s, n) == IF Len(s) <= n THEN s ELSE SubSeq(s, 1, n)


---------------------------------------------------------------------------
(* The responses of the GraphQL endpoint *)

\* fetch_all_orders: limit
limit == 20

QueryName == "getConsumerOrdersWithDetails"

Item(name, extras) ==
    JObj([name |-> JStr(name), orderItemExtras |-> JList(extras)])

Extra(name, options) ==
    JObj([name |-> JStr(name),
          orderItemExtraOptions |-> JList([i \in DOMAIN options |->
                                            JObj([name |-> JStr(options[i])])])])

Creator(first, last) == JObj([firstName |-> first, lastName |-> last])

SubOrder(creator, items) == JObj([creator |-> creator, items |-> JList(items)])

OrderCart(uuid, id, submitted, created, store_name, sub_orders) ==
    JObj([orderUuid |-> uuid, id |-> id, submittedAt |-> submitted,
          createdAt |-> created,
          store |-> JObj([name |-> JStr(store_name)]),
          orders |-> JList(sub_orders)])

OrdersPage(order_carts) ==
    JObj([data |-> JObj([getConsumerOrdersWithDetails |-> JList(order_carts)])])

ErrorsPage(messages) ==
    JObj([errors |-> JList([i \in DOMAIN messages |->
                             JObj([message |-> JStr(messages[i])])])])

Taco == Item("Taco", <<>>)

Burrito == Item("Burrito", << Extra("Protein", <<"Steak">>) >>)

GroupOrder ==
    OrderCart(JStr("u-1"), JNum(1), JStr("2023-05-02T18:30:00Z"),
              JStr("2023-05-02T18:00:00Z"), "Cantina",
              << SubOrder(Creator(JStr("Amy"), JNull), <<Taco>>),
                 SubOrder(Creator(JStr("Bo"), JStr("Lee")), <<Burrito>>) >>)

SoloOrder ==
    OrderCart(JNull, JNum(2), JNull, JStr("2023-05-01T12:00:00Z"), "Diner",
              << SubOrder(Creator(JStr("Amy"), JNull), <<Burrito, Taco>>) >>)

FullPage == OrdersPage(<<GroupOrder, SoloOrder>>)

ShortPage == OrdersPage(<<SoloOrder>>)

EmptyPage == OrdersPage(<<>>)

\* the decoded bodies the endpoint may answer a page request with
Payloads ==
    { FullPage, ShortPage, EmptyPage,
      ErrorsPage(<<"Cannot query field getConsumerOrdersWithDetails">>),
      ErrorsPage(<<"Unknown field ordersHistory on type Query">>),
      ErrorsPage(<<"Rate limit exceeded">>),
      JObj([errors |-> JList(<< JObj([message |-> JStr("Not authorized")]) >>),
            data |-> JObj([getConsumerOrdersWithDetails |-> JList(<<SoloOrder>>)])]),
      JObj([errors |-> JList(<<>>)]),
      JObj([errors |-> JList(<< JObj([extensions |-> JStr("INTERNAL")]) >>)]),
      JObj([message |-> JStr("Forbidden")]),
      JObj([data |-> JNull]),
      JObj([data |-> JObj(EmptyDict)]),
      JObj([data |-> JObj([getConsumerOrdersWithDetails |-> JNull])]) }

\* requests.post or json.loads raising inside fetch_orders
TransportFailure == [t |-> "transport_failure"]

\* fetch_orders(limit, offset): what a call may produce
fetch_orders(limit_, offset_) == Payloads \cup {TransportFailure}

---------------------------------------------------------------------------
(* The page cache *)

\* fetch_orders_persisted: filename
Filename(limit_, offset_) ==
    "doordash-orders-limit-" \o ToString(limit_) \o "-offset-"
        \o ToString(offset_) \o ".json"

\* a dump that leaves an incomplete document behind
JsonDumpTruncated(data_) == [kind |-> "garbage"]

\* json.dump(data, open(filename, "w")): the text written.  A value decoded
\* from JSON is written as a document that decodes to an equal value.
JsonDump(data_) == [kind |-> "json", doc |-> data_]

\* a file that is not a JSON document (json.load raises ValueError)
Garbage == [kind |-> "garbage"]

\* a file that can be neither opened for reading nor for writing (IOError)
Locked == [kind |-> "locked"]

\* open(filename, "r") and json.load succeed
Readable(dir, filename) ==
    /\ filename \in DOMAIN dir
    /\ dir[filename].kind = "json"

\* a load that keeps only the data member of the document
JsonLoadDataOnly(dir, filename) ==
    IF HasKey(dir[filename].doc, "data")
    THEN JObj([data |-> dir[filename].doc.fields["data"]])
    ELSE JObj(EmptyDict)

\* json.load(open(filename, "r")), for a readable file
JsonLoad(dir, filename) == dir[filename].doc

\* open(filename, "w") succeeds
Writable(dir, filename) ==
    filename \in DOMAIN dir => dir[filename].kind # "locked"

\* the directory after filename was written
WriteFile(dir, filename, content) ==
    [f \in DOMAIN dir \cup {filename} |->
        IF f = filename THEN content ELSE dir[f]]

---------------------------------------------------------------------------
(* Exceptions *)

NoException == [exc |-> "none"]

KeyError(key) == [exc |-> "KeyError", msg |-> key]

TypeError == [exc |-> "TypeError"]

AttributeError == [exc |-> "AttributeError"]

\* the exception fetch_orders lets through (requests' or json's)
TransportError == [exc |-> "TransportError"]

\* open(filename, "w") raising inside the except clause
PermissionError == [exc |-> "PermissionError"]

RuntimeError(msg) == [exc |-> "RuntimeError", msg |-> msg, keys |-> {}]

\* fetch_all_orders: the message of the RuntimeError raised when the error
\* message names the query
QueryChangedMsg ==
    "DoorDash changed their order history GraphQL query. "
    \o "Capture the new query from doordash.com (look for GraphQL calls in DevTools Network tab) "
    \o "and update ORDERS_QUERY to match."

\* fetch_all_orders: the prefix of the message of the generic RuntimeError
ApiErrorPrefix == "GraphQL API error: "

\* fetch_all_orders: the message raised when the response has no data key;
\* the keys the message lists are kept as a set
NoDataMsg == "Unexpected API response structure. Expected 'data' key but got: "

\* fetch_all_orders: the message raised when the expected field is None
FieldMissingMsg ==
    "DoorDash response did not include 'getConsumerOrdersWithDetails'. "
    \o "Update ORDERS_QUERY to match the current API."

---------------------------------------------------------------------------
(* fetch_all_orders: the checks on one page *)

Raise(exception) == [act |-> "raise", exception |-> exception]

\* data["errors"][0]["message"] if data["errors"] else "Unknown error":
\* the exception the expression raises, if any
ErrorMsgFailure(errors) ==
    IF ~Truthy(errors) THEN NoException
    ELSE IF errors.t = "obj" THEN KeyError("0")
    ELSE IF errors.t # "list" THEN TypeError
    ELSE IF errors.items[1].t # "obj" THEN TypeError
    ELSE IF ~HasKey(errors.items[1], "message") THEN KeyError("message")
    ELSE NoException

\* the value of the same expression when it raises nothing
ErrorMsg(errors) ==
    IF ~Truthy(errors) THEN JStr("Unknown error")
    ELSE errors.items[1].fields["message"]

\* lines 126-132: the exception raised for error_msg
ClassifyError(error_msg) ==
    CASE error_msg.t = "str" ->
            IF \/ StrContains(QueryName, error_msg.s)
               \/ StrContains("ordersHistory", error_msg.s)
            THEN RuntimeError(QueryChangedMsg)
            ELSE RuntimeError(ApiErrorPrefix \o error_msg.s)
      [] error_msg.t \in {"null", "num"} -> TypeError

\* the loop ended by a page shorter than the batch size
CheckDataShortPage(data_) ==
    IF data_.fields["data"].t # "obj" THEN Raise(AttributeError)
    ELSE LET orders_history == DictGet(data_.fields["data"], QueryName) IN
         IF orders_history.t = "null" THEN Raise(RuntimeError(FieldMissingMsg))
         ELSE IF Len(orders_history.items) < limit THEN [act |-> "break"]
         ELSE [act |-> "yield", orders_history |-> orders_history.items]

\* lines 141-156, for a response that has a data key
CheckData(data_) ==
    IF data_.fields["data"].t # "obj" THEN Raise(AttributeError)
    ELSE LET orders_history == DictGet(data_.fields["data"], QueryName) IN
         IF orders_history.t = "null" THEN Raise(RuntimeError(FieldMissingMsg))
         ELSE IF ~Truthy(orders_history) THEN [act |-> "break"]
         ELSE CASE orders_history.t = "list" ->
                     [act |-> "yield", orders_history |-> orders_history.items]

\* lines 120-156: what the loop body does with the decoded page, a JSON object
ValidatePage(data_) ==
    IF HasKey(data_, "errors") THEN
        IF ErrorMsgFailure(data_.fields["errors"]) # NoException
        THEN Raise(ErrorMsgFailure(data_.fields["errors"]))
        ELSE Raise(ClassifyError(ErrorMsg(data_.fields["errors"])))
    ELSE IF ~HasKey(data_, "data") THEN
        Raise([exc |-> "RuntimeError", msg |-> NoDataMsg,
               keys |-> DOMAIN data_.fields])
    ELSE CheckData(data_)

---------------------------------------------------------------------------
(* execute: one order summary into rows (lines 188-235) *)

Whitespace == {" ", "\t", "\n", "\r"}

RECURSIVE LStrip(_)
LStrip(s) == IF s # "" /\ Head(s) \in Whitespace THEN LStrip(Tail(s)) ELSE s

RECURSIVE RStrip(_)
RStrip(s) ==
    IF s # "" /\ SubSeq(s, Len(s), Len(s)) \in Whitespace
    THEN RStrip(SubSeq(s, 1, Len(s) - 1))
    ELSE s

\* s.strip()
StrStrip(s) == RStrip(LStrip(s))

\* sep.join(strings)
RECURSIVE StrJoin(_, _)
StrJoin(sep, strings) ==
    IF strings = <<>> THEN ""
    ELSE IF Len(strings) = 1 THEN strings[1]
    ELSE strings[1] \o sep \o StrJoin(sep, Tail(strings))

\* the concatenation of a sequence of sequences
RECURSIVE Concat(_)
Concat(seqs) == IF seqs = <<>> THEN <<>> ELSE Head(seqs) \o Concat(Tail(seqs))

\* the first exception of a sequence of outcomes, in order
RECURSIVE FirstException(_)
FirstException(outcomes) ==
    IF outcomes = <<>> THEN NoException
    ELSE IF Head(outcomes) # NoException THEN Head(outcomes)
    ELSE FirstException(Tail(outcomes))

\* a or b
PyOr(a, b) == IF Truthy(a) THEN a ELSE b

\* d.get(key, []): the default replaces an absent key, not a null value
DictGetList(d, key) == IF HasKey(d, key) THEN d.fields[key] ELSE JList(<<>>)

\* line 190: order_cart["orderUuid"] or order_cart["id"]
OrderId(order_cart) ==
    PyOr(order_cart.fields["orderUuid"], DictGet(order_cart, "id"))

\* line 190: the exception the expression raises, if any
OrderIdFailure(order_cart) ==
    IF ~HasKey(order_cart, "orderUuid") THEN KeyError("orderUuid")
    ELSE IF ~Truthy(order_cart.fields["orderUuid"]) /\ ~HasKey(order_cart, "id")
         THEN KeyError("id")
    ELSE NoException

\* line 195: the placeholder date
SentinelDate == "1900-01-01T00:00:00Z"

\* line 189: order_cart.get("submittedAt") or order_cart.get("createdAt")
Timestamp(order_cart) ==
    PyOr(DictGet(order_cart, "submittedAt"), DictGet(order_cart, "createdAt"))

\* the creation timestamp preferred to the submission timestamp
DeliveryTimeCreatedFirst(order_cart) ==
    LET stamp == PyOr(DictGet(order_cart, "createdAt"),
                      DictGet(order_cart, "submittedAt")) IN
    IF ~Truthy(stamp) THEN SentinelDate
    ELSE CASE stamp.t = "str" -> stamp.s

\* lines 189-195: delivery_time, a string
DeliveryTime(order_cart) ==
    IF ~Truthy(Timestamp(order_cart)) THEN SentinelDate
    ELSE CASE Timestamp(order_cart).t = "str" -> Timestamp(order_cart).s

\* the two names joined and left untrimmed
PersonNameUntrimmed(sub_order) ==
    LET creator == DictGet(sub_order, "creator") IN
    IF Truthy(creator) THEN
        LET first_name == PyOr(DictGet(creator, "firstName"), JStr("Unknown"))
            last_name  == PyOr(DictGet(creator, "lastName"), JStr(""))
        IN  first_name.s \o " " \o last_name.s
    ELSE "Unknown"

\* lines 202-208: person_name
PersonName(sub_order) ==
    LET creator == DictGet(sub_order, "creator") IN
    IF Truthy(creator) THEN
        LET first_name == PyOr(DictGet(creator, "firstName"), JStr("Unknown"))
            last_name  == PyOr(DictGet(creator, "lastName"), JStr(""))
        IN  CASE first_name.t = "str" /\ last_name.t = "str" ->
                   StrStrip(first_name.s \o " " \o last_name.s)
    ELSE "Unknown"

\* lines 202-206: the exception raised for the creator, if any
CreatorFailure(sub_order) ==
    LET creator == DictGet(sub_order, "creator") IN
    IF Truthy(creator) /\ creator.t # "obj" THEN AttributeError ELSE NoException

\* lines 216-220 for one extra: its (extra_name, option_name) pairs
ExtraOptions(extra) ==
    LET opts == DictGetList(extra, "orderItemExtraOptions").items IN
    [j \in DOMAIN opts |-> <<extra.fields["name"].s, opts[j].fields["name"].s>>]

\* lines 213-220: options
ItemOptions(item) ==
    LET extras == DictGetList(item, "orderItemExtras").items IN
    Concat([i \in DOMAIN extras |-> ExtraOptions(extras[i])])

\* lines 222-223: options_string
OptionsString(item) ==
    LET options == ItemOptions(item) IN
    StrJoin(", ", [i \in DOMAIN options |->
                     options[i][1] \o ": " \o options[i][2]])

\* lines 216-220 for one extra: the exception raised, if any
ExtraFailure(extra) ==
    IF extra.t # "obj" THEN TypeError
    ELSE IF ~HasKey(extra, "name") THEN KeyError("name")
    ELSE IF DictGetList(extra, "orderItemExtraOptions").t # "list" THEN TypeError
    ELSE LET opts == DictGetList(extra, "orderItemExtraOptions").items IN
         FirstException([j \in DOMAIN opts |->
            IF opts[j].t # "obj" THEN TypeError
            ELSE IF ~HasKey(opts[j], "name") THEN KeyError("name")
            ELSE NoException])

\* lines 212-220: the exception raised for one item, if any
ItemFailure(item) ==
    IF item.t # "obj" THEN TypeError
    ELSE IF ~HasKey(item, "name") THEN KeyError("name")
    ELSE IF DictGetList(item, "orderItemExtras").t # "list" THEN TypeError
    ELSE LET extras == DictGetList(item, "orderItemExtras").items IN
         FirstException([i \in DOMAIN extras |-> ExtraFailure(extras[i])])

\* lines 202-220: the exception raised for one sub-order, if any
SubOrderFailure(sub_order) ==
    IF sub_order.t # "obj" THEN AttributeError
    ELSE IF CreatorFailure(sub_order) # NoException THEN CreatorFailure(sub_order)
    ELSE IF ~HasKey(sub_order, "items") THEN KeyError("items")
    ELSE IF sub_order.fields["items"].t # "list" THEN TypeError
    ELSE LET items == sub_order.fields["items"].items IN
         FirstException([i \in DOMAIN items |-> ItemFailure(items[i])])

\* lines 188-220: the exception raised while one order summary is processed
OrderFailure(order_cart) ==
    IF order_cart.t # "obj" THEN TypeError
    ELSE IF ~HasKey(order_cart, "store") THEN KeyError("store")
    ELSE IF order_cart.fields["store"].t # "obj" THEN TypeError
    ELSE IF ~HasKey(order_cart.fields["store"], "name") THEN KeyError("name")
    ELSE IF OrderIdFailure(order_cart) # NoException THEN OrderIdFailure(order_cart)
    ELSE IF ~HasKey(order_cart, "orders") THEN KeyError("orders")
    ELSE IF order_cart.fields["orders"].t # "list" THEN TypeError
    ELSE LET sub_orders == order_cart.fields["orders"].items IN
         FirstException([i \in DOMAIN sub_orders |-> SubOrderFailure(sub_orders[i])])

\* lines 225-232: row
Row(order_cart, sub_order, item) ==
    [order_id |-> OrderId(order_cart),
     date     |-> DeliveryTime(order_cart),
     store    |-> order_cart.fields["store"].fields["name"].s,
     person   |-> PersonName(sub_order),
     item     |-> item.fields["name"].s,
     options  |-> OptionsString(item)]

\* lines 211-233: the rows appended for one sub-order
SubOrderRows(order_cart, sub_order) ==
    LET items == sub_order.fields["items"].items IN
    [i \in DOMAIN items |-> Row(order_cart, sub_order, items[i])]

\* one row for each sub-order, of its first item
OrderRowsPerSubOrder(order_cart) ==
    LET sub_orders == order_cart.fields["orders"].items IN
    Concat([i \in DOMAIN sub_orders |->
              SubSeq(SubOrderRows(order_cart, sub_orders[i]), 1, 1)])

\* lines 201-233: the rows appended for one order summary that raises nothing
OrderRows(order_cart) ==
    LET sub_orders == order_cart.fields["orders"].items IN
    Concat([i \in DOMAIN sub_orders |-> SubOrderRows(order_cart, sub_orders[i])])

\* line 194: whether the missing-timestamp warning is logged
WarnsMissingTimestamp(order_cart) == ~Truthy(Timestamp(order_cart))

---------------------------------------------------------------------------
(* execute: the two exports (lines 237-272) *)

CsvName == "doordash.csv"

PivotName == "doordash-pivot.csv"

\* lines 242-252: the lines of doordash.csv
CsvLines(rows_) ==
    << <<"Date", "Store", "Person", "Item", "Options">> >>
    \o [i \in DOMAIN rows_ |->
          << StrPrefix(rows_[i].date, 10), rows_[i].store, rows_[i].person,
             rows_[i].item, rows_[i].options >>]

\* order[key] = value, for a dict kept as a function
DictSet(d, key, value) ==
    [k \in DOMAIN d \cup {key} |-> IF k = key THEN value ELSE d[k]]

\* lines 259-262: the dict of one order after one more row
OrderDictAfter(order, row) ==
    DictSet(DictSet(DictSet(order, "date", row.date), "store", row.store),
            row.person, row.item \o ". " \o row.options)

\* the position of key in a sequence of <<key, dict>> entries, 0 when absent
IndexOfKey(entries, key) ==
    IF \E i \in DOMAIN entries : entries[i][1] = key
    THEN CHOOSE i \in DOMAIN entries : entries[i][1] = key
    ELSE 0

\* lines 257-262: by_order_id, its entries in insertion order
RECURSIVE ByOrderId(_)
ByOrderId(rows_) ==
    IF rows_ = <<>> THEN <<>>
    ELSE LET before == ByOrderId(SubSeq(rows_, 1, Len(rows_) - 1))
             row    == rows_[Len(rows_)]
             at     == IndexOfKey(before, row.order_id)
         IN  IF at = 0
             THEN Append(before, <<row.order_id, OrderDictAfter(<<>>, row)>>)
             ELSE [before EXCEPT ![at] = <<row.order_id, OrderDictAfter(@[2], row)>>]

\* lines 263-265: the keys of person_counter, in insertion order
RECURSIVE CounterKeys(_)
CounterKeys(rows_) ==
    IF rows_ = <<>> THEN <<>>
    ELSE LET before == CounterKeys(SubSeq(rows_, 1, Len(rows_) - 1))
             person == rows_[Len(rows_)].person
         IN  IF \E i \in DOMAIN before : before[i] = person
             THEN before ELSE Append(before, person)

\* lines 263-265: person_counter[person]
PersonCount(rows_, person) ==
    Cardinality({i \in DOMAIN rows_ : rows_[i].person = person})

\* an unstable descending sort: x goes ahead of the elements of equal count
InsertByCountUnstable(sorted, x, rows_) ==
    LET ahead == {i \in DOMAIN sorted :
                    PersonCount(rows_, sorted[i]) > PersonCount(rows_, x)}
        n == Cardinality(ahead)
    IN  SubSeq(sorted, 1, n) \o <<x>> \o SubSeq(sorted, n + 1, Len(sorted))

\* sorted(..., reverse=True) inserts stably: x goes behind every element
\* whose count is not smaller
InsertByCount(sorted, x, rows_) ==
    LET ahead == {i \in DOMAIN sorted :
                    PersonCount(rows_, sorted[i]) >= PersonCount(rows_, x)}
        n == Cardinality(ahead)
    IN  SubSeq(sorted, 1, n) \o <<x>> \o SubSeq(sorted, n + 1, Len(sorted))

RECURSIVE SortByCount(_, _)
SortByCount(keys, rows_) ==
    IF keys = <<>> THEN <<>>
    ELSE InsertByCount(SortByCount(SubSeq(keys, 1, Len(keys) - 1), rows_),
                       keys[Len(keys)], rows_)

\* line 266: people, the persons of person_counter.most_common()
People(rows_) == SortByCount(CounterKeys(rows_), rows_)

\* lines 269-272: the lines of doordash-pivot.csv
PivotLines(rows_) ==
    LET people == People(rows_)
        orders == ByOrderId(rows_)
    IN  << <<"Date", "Store">> \o people >>
        \o [i \in DOMAIN orders |->
              << StrPrefix(orders[i][2]["date"], 10), orders[i][2]["store"] >>
              \o [j \in DOMAIN people |->
                    IF people[j] \in DOMAIN orders[i][2]
                    THEN orders[i][2][people[j]] ELSE ""]]

---------------------------------------------------------------------------
(* The run: execute driving the generator fetch_all_orders *)

\* line 159: time.sleep(1), in milliseconds
PageSleepMs == 1000

\* line 235: time.sleep(0.1), in milliseconds
OrderSleepMs == 100

\* the cache files of the pages a run of the model may request
CacheFiles == {Filename(limit, k * limit) : k \in 0..(MaxPages - 1)}

\* the current run's events, extended
Logged(events) == [hist EXCEPT ![run] = @ \o events]

\* execute is called (lines 186-187, 109-111)
StartRun ==
    /\ pc \in {"idle", "done", "raised"}
    /\ run < MaxRuns
    /\ run' = run + 1
    /\ pc' = "fetch"
    /\ offset' = 0
    /\ rows' = <<>>
    /\ pending' = <<>>
    /\ raised' = NoException
    /\ hist' = Append(hist, <<>>)
    /\ UNCHANGED <<store, exports, data, was_persisted>>

\* fetch_orders_persisted, lines 98-101: the file is read
CacheHit ==
    /\ pc = "fetch"
    /\ offset < MaxPages * limit
    /\ Readable(store, Filename(limit, offset))
    /\ data' = JsonLoad(store, Filename(limit, offset))
    /\ was_persisted' = TRUE
    /\ pc' = "validate"
    /\ hist' = Logged(<< [ev |-> "page", offset |-> offset,
                          data |-> data', cached |-> TRUE] >>)
    /\ UNCHANGED <<store, exports, run, offset, pending, rows, raised>>

\* the file opened for writing before the page is fetched: a failed fetch
\* leaves it empty
CacheMissTruncates ==
    /\ pc = "fetch"
    /\ offset < MaxPages * limit
    /\ ~Readable(store, Filename(limit, offset))
    /\ \E response \in fetch_orders(limit, offset) :
          IF ~Writable(store, Filename(limit, offset)) THEN
              /\ raised' = PermissionError
              /\ pc' = "raised"
              /\ hist' = hist
              /\ UNCHANGED <<store, data, was_persisted>>
          ELSE IF response = TransportFailure THEN
              /\ store' = WriteFile(store, Filename(limit, offset), Garbage)
              /\ raised' = TransportError
              /\ pc' = "raised"
              /\ hist' = Logged(<< [ev |-> "net", offset |-> offset] >>)
              /\ UNCHANGED <<data, was_persisted>>
          ELSE
              /\ store' = WriteFile(store, Filename(limit, offset), JsonDump(response))
              /\ data' = response
              /\ was_persisted' = FALSE
              /\ pc' = "validate"
              /\ hist' = Logged(<< [ev |-> "net", offset |-> offset],
                                   [ev |-> "write", file |-> Filename(limit, offset)],
                                   [ev |-> "page", offset |-> offset,
                                    data |-> response, cached |-> FALSE] >>)
              /\ UNCHANGED raised
    /\ UNCHANGED <<exports, run, offset, pending, rows>>

\* the payload stored only when it passes the checks
CacheMissPersistsValid ==
    /\ pc = "fetch"
    /\ offset < MaxPages * limit
    /\ ~Readable(store, Filename(limit, offset))
    /\ \E response \in fetch_orders(limit, offset) :
          IF response = TransportFailure THEN
              /\ raised' = TransportError
              /\ pc' = "raised"
              /\ hist' = Logged(<< [ev |-> "net", offset |-> offset] >>)
              /\ UNCHANGED <<store, data, was_persisted>>
          ELSE IF ~Writable(store, Filename(limit, offset)) THEN
              /\ raised' = PermissionError
              /\ pc' = "raised"
              /\ hist' = Logged(<< [ev |-> "net", offset |-> offset] >>)
              /\ UNCHANGED <<store, data, was_persisted>>
          ELSE
              /\ store' = IF ValidatePage(response).act = "yield"
                          THEN WriteFile(store, Filename(limit, offset), JsonDump(response))
                          ELSE store
              /\ data' = response
              /\ was_persisted' = FALSE
              /\ pc' = "validate"
              /\ hist' = Logged(<< [ev |-> "net", offset |-> offset],
                                   [ev |-> "write", file |-> Filename(limit, offset)],
                                   [ev |-> "page", offset |-> offset,
                                    data |-> response, cached |-> FALSE] >>)
              /\ UNCHANGED raised
    /\ UNCHANGED <<exports, run, offset, pending, rows>>

\* fetch_orders_persisted, lines 102-105: the read fails, the page is fetched
CacheMiss ==
    /\ pc = "fetch"
    /\ offset < MaxPages * limit
    /\ ~Readable(store, Filename(limit, offset))
    /\ \E response \in fetch_orders(limit, offset) :
          IF response = TransportFailure THEN
              /\ raised' = TransportError
              /\ pc' = "raised"
              /\ hist' = Logged(<< [ev |-> "net", offset |-> offset] >>)
              /\ UNCHANGED <<store, data, was_persisted>>
          ELSE IF ~Writable(store, Filename(limit, offset)) THEN
              /\ raised' = PermissionError
              /\ pc' = "raised"
              /\ hist' = Logged(<< [ev |-> "net", offset |-> offset] >>)
              /\ UNCHANGED <<store, data, was_persisted>>
          ELSE
              /\ store' = WriteFile(store, Filename(limit, offset), JsonDump(response))
              /\ data' = response
              /\ was_persisted' = FALSE
              /\ pc' = "validate"
              /\ hist' = Logged(<< [ev |-> "net", offset |-> offset],
                                   [ev |-> "write", file |-> Filename(limit, offset)],
                                   [ev |-> "page", offset |-> offset,
                                    data |-> response, cached |-> FALSE] >>)
              /\ UNCHANGED raised
    /\ UNCHANGED <<exports, run, offset, pending, rows>>

\* a check whose failures are logged and end the sequence instead of the run
ValidateLenient ==
    /\ pc = "validate"
    /\ LET v == ValidatePage(data) IN
         CASE v.act \in {"raise", "break"} ->
                /\ pc' = "write_csv"
                /\ UNCHANGED <<raised, pending>>
           [] v.act = "yield" ->
                /\ pending' = v.orders_history
                /\ pc' = "yield"
                /\ UNCHANGED raised
    /\ UNCHANGED <<store, exports, run, offset, data, was_persisted, rows, hist>>

\* fetch_all_orders, lines 120-156: the page is checked
Validate ==
    /\ pc = "validate"
    /\ LET v == ValidatePage(data) IN
         CASE v.act = "raise" ->
                /\ raised' = v.exception
                /\ pc' = "raised"
                /\ UNCHANGED pending
           [] v.act = "break" ->
                /\ pc' = "write_csv"
                /\ UNCHANGED <<raised, pending>>
           [] v.act = "yield" ->
                /\ pending' = v.orders_history
                /\ pc' = "yield"
                /\ UNCHANGED raised
    /\ UNCHANGED <<store, exports, run, offset, data, was_persisted, rows, hist>>

\* the generator yields one summary and execute's loop body runs on it
\* (lines 156, 187-235).  An exception in the body ends the run; the rows
\* the body appended before it are lost with the local list.
ProcessOrder ==
    /\ pc = "yield"
    /\ pending # <<>>
    /\ LET order_cart == Head(pending) IN
         IF OrderFailure(order_cart) # NoException THEN
             /\ raised' = OrderFailure(order_cart)
             /\ pc' = "raised"
             /\ hist' = Logged(<< [ev |-> "yield", order |-> order_cart] >>)
             /\ UNCHANGED <<rows, pending>>
         ELSE
             /\ rows' = rows \o OrderRows(order_cart)
             /\ pending' = Tail(pending)
             /\ hist' = Logged(
                    << [ev |-> "yield", order |-> order_cart] >>
                    \o (IF WarnsMissingTimestamp(order_cart)
                        THEN << [ev |-> "warn", order_id |-> OrderId(order_cart)] >>
                        ELSE <<>>)
                    \o << [ev |-> "sleep", ms |-> OrderSleepMs] >>)
             /\ UNCHANGED <<raised, pc>>
    /\ UNCHANGED <<store, exports, run, offset, data, was_persisted>>

\* the pause taken after every page, cached or not
AdvanceAlwaysSleeps ==
    /\ pc = "yield"
    /\ pending = <<>>
    /\ offset' = offset + limit
    /\ hist' = Logged(<< [ev |-> "sleep", ms |-> PageSleepMs] >>)
    /\ pc' = "fetch"
    /\ UNCHANGED <<store, exports, run, data, was_persisted, pending, rows, raised>>

\* the offset advanced by the number of summaries of the page
AdvanceByCount ==
    /\ pc = "yield"
    /\ pending = <<>>
    /\ offset' = offset + Len(data.fields["data"].fields[QueryName].items)
    /\ hist' = Logged(IF was_persisted THEN <<>>
                      ELSE << [ev |-> "sleep", ms |-> PageSleepMs] >>)
    /\ pc' = "fetch"
    /\ UNCHANGED <<store, exports, run, data, was_persisted, pending, rows, raised>>

\* fetch_all_orders, lines 157-159: the page is exhausted
Advance ==
    /\ pc = "yield"
    /\ pending = <<>>
    /\ offset' = offset + limit
    /\ hist' = Logged(IF was_persisted THEN <<>>
                      ELSE << [ev |-> "sleep", ms |-> PageSleepMs] >>)
    /\ pc' = "fetch"
    /\ UNCHANGED <<store, exports, run, data, was_persisted, pending, rows, raised>>

\* execute, lines 238-252
WriteCsv ==
    /\ pc = "write_csv"
    /\ exports' = WriteFile(exports, CsvName, CsvLines(rows))
    /\ hist' = Logged(<< [ev |-> "export", file |-> CsvName] >>)
    /\ pc' = "write_pivot"
    /\ UNCHANGED <<store, run, offset, data, was_persisted, pending, rows, raised>>

\* execute, lines 255-272
WritePivot ==
    /\ pc = "write_pivot"
    /\ exports' = WriteFile(exports, PivotName, PivotLines(rows))
    /\ hist' = Logged(<< [ev |-> "export", file |-> PivotName] >>)
    /\ pc' = "done"
    /\ UNCHANGED <<store, run, offset, data, was_persisted, pending, rows, raised>>

\* the cache files found in the working directory before the first run:
\* none, or files left unusable
PreexistingFiles == {Garbage, Locked}

Init ==
    /\ \E present \in SUBSET CacheFiles :
          store \in [present -> PreexistingFiles]
    /\ exports = [f \in {} |-> <<>>]
    /\ pc = "idle"
    /\ run = 0
    /\ offset = 0
    /\ data = JNull
    /\ was_persisted = FALSE
    /\ pending = <<>>
    /\ rows = <<>>
    /\ raised = NoException
    /\ hist = <<>>

Next ==
    \/ StartRun
    \/ CacheHit
    \/ CacheMiss
    \/ Validate
    \/ ProcessOrder
    \/ Advance
    \/ WriteCsv
    \/ WritePivot

Spec == Init /\ [][Next]_vars

---------------------------------------------------------------------------
(* Runs against a directory whose cache already holds the pages: the order *)
(* summary of the first page is drawn from bounded sets.                   *)

\* a member an object may lack
Absent == [t |-> "absent"]

\* the object member key: value, none for Absent
Member(key, value) == IF value = Absent THEN EmptyDict ELSE (key :> value)

DrawnUuids == {Absent, JNull, JStr(""), JStr("u-7")}

DrawnIds == {Absent, JNull, JNum(7)}

DrawnFirstNames == {Absent, JNull, JStr(""), JStr("Amy"), JStr(" Al ")}

DrawnLastNames == {Absent, JNull, JStr(""), JStr("Lee")}

DrawnCreators ==
    {Absent, JNull, JObj(EmptyDict)}
    \cup {JObj(Member("firstName", f) @@ Member("lastName", l)) :
            f \in DrawnFirstNames, l \in DrawnLastNames}

DrawnExtras ==
    { Absent,
      JNull,
      JList(<<>>),
      JList(<< Extra("Protein", <<"Steak">>) >>),
      JList(<< Extra("Protein", <<"Steak", "Chicken">>) >>),
      JList(<< Extra("Protein", <<"Steak">>), Extra("Salsa", <<"Hot", "Mild">>) >>),
      JList(<< Extra("Protein", <<>>), Extra("Salsa", <<"Hot">>) >>),
      JList(<< JObj([name |-> JStr("Side")]), Extra("Protein", <<"Steak">>) >>) }

DrawnTimestamps ==
    { <<s, c>> : s \in {Absent, JNull, JStr(""), JStr("2023-06-07T19:45:00Z")},
                 c \in {Absent, JNull, JStr("2023-05-01T12:00:00Z")} }

\* an order summary with the given members
DrawnOrder(uuid, id, stamps, sub_orders) ==
    JObj(Member("orderUuid", uuid) @@ Member("id", id)
         @@ Member("submittedAt", stamps[1]) @@ Member("createdAt", stamps[2])
         @@ ("store" :> JObj([name |-> JStr("Cantina")]))
         @@ ("orders" :> JList(sub_orders)))

DrawnSubOrder(creator, items) ==
    JObj(Member("creator", creator) @@ ("items" :> JList(items)))

DrawnItem(name, extras) ==
    JObj(("name" :> JStr(name)) @@ Member("orderItemExtras", extras))

DefaultStamps == <<JStr("2023-06-07T19:45:00Z"), JStr("2023-06-07T19:40:00Z")>>

AmyTaco == DrawnSubOrder(Creator(JStr("Amy"), JNull), <<DrawnItem("Taco", Absent)>>)

\* the order summaries the first page may hold
DrawnOrders ==
    {DrawnOrder(u, i, DefaultStamps, <<AmyTaco>>) : u \in DrawnUuids, i \in DrawnIds}
    \cup {DrawnOrder(JStr("u-7"), JNum(7), DefaultStamps,
                     <<DrawnSubOrder(c, <<DrawnItem("Taco", Absent)>>)>>) :
            c \in DrawnCreators}
    \cup {DrawnOrder(JStr("u-7"), JNum(7), DefaultStamps,
                     <<AmyTaco,
                       DrawnSubOrder(Creator(JStr("Bo"), JNull),
                                     <<DrawnItem("Burrito", x)>>)>>) :
            x \in DrawnExtras}
    \cup {DrawnOrder(JStr("u-7"), JNum(7), st, <<AmyTaco>>) : st \in DrawnTimestamps}

InitFlatten ==
    /\ \E order_cart \in DrawnOrders :
          store = (Filename(limit, 0) :> JsonDump(OrdersPage(<<order_cart, SoloOrder>>)))
                  @@ (Filename(limit, limit) :> JsonDump(EmptyPage))
    /\ exports = [f \in {} |-> <<>>]
    /\ pc = "idle"
    /\ run = 0
    /\ offset = 0
    /\ data = JNull
    /\ was_persisted = FALSE
    /\ pending = <<>>
    /\ rows = <<>>
    /\ raised = NoException
    /\ hist = <<>>

NextFlatten ==
    \/ StartRun
    \/ CacheHit
    \/ Validate
    \/ ProcessOrder
    \/ Advance
    \/ WriteCsv
    \/ WritePivot

SpecFlatten == InitFlatten /\ [][NextFlatten]_vars

---------------------------------------------------------------------------
(* The exports of a run whose loop has ended: the rows are drawn from      *)
(* bounded sets.                                                           *)

\* number of rows the drawn runs have accumulated at most
MaxRows == 4

DrawnPersons == {"Amy", "Bo", "Cy"}

DrawnRowOrders ==
    { [order_id |-> JStr("u-1"), date |-> "2023-05-02T18:30:00Z", store |-> "Cantina"],
      [order_id |-> JNum(2), date |-> SentinelDate, store |-> "Diner"] }

DrawnRows ==
    { [order_id |-> o.order_id, date |-> o.date, store |-> o.store,
       person |-> p, item |-> "Taco", options |-> ""] :
        o \in DrawnRowOrders, p \in DrawnPersons }

InitExport ==
    /\ \E n \in 0..MaxRows : rows \in [1..n -> DrawnRows]
    /\ store = (Filename(limit, 0) :> JsonDump(EmptyPage))
    /\ exports = [f \in {} |-> <<>>]
    /\ pc = "write_csv"
    /\ run = 1
    /\ offset = 0
    /\ data = EmptyPage
    /\ was_persisted = TRUE
    /\ pending = <<>>
    /\ raised = NoException
    /\ hist = << << [ev |-> "page", offset |-> 0, data |-> EmptyPage, cached |-> TRUE] >> >>

NextExport ==
    \/ WriteCsv
    \/ WritePivot

SpecExport == InitExport /\ [][NextExport]_vars

---------------------------------------------------------------------------
(* The vocabulary of the claims *)

Last(seq) == seq[Len(seq)]

IsPage(e) == e.ev = "page"

IsYield(e) == e.ev = "yield"

IsNet(e) == e.ev = "net"

IsExport(e) == e.ev = "export"

\* the pages fetch_orders_persisted returned in a run, in order
PageEvents(log) == SelectSeq(log, IsPage)

\* the order summaries a run yielded, in order
YieldEvents(log) == SelectSeq(log, IsYield)

\* the calls of fetch_orders in a run
NetEvents(log) == SelectSeq(log, IsNet)

\* a valid page: no errors, and data holds the list of order summaries
ValidPage(d) ==
    /\ ~HasKey(d, "errors")
    /\ HasKey(d, "data")
    /\ d.fields["data"].t = "obj"
    /\ HasKey(d.fields["data"], QueryName)
    /\ d.fields["data"].fields[QueryName].t = "list"

\* the order summaries of a valid page
Summaries(d) == d.fields["data"].fields[QueryName].items

EmptyValidPage(d) == ValidPage(d) /\ Summaries(d) = <<>>

\* fetch_all_orders has finished (the generator is exhausted)
Finished == pc \in {"write_csv", "write_pivot", "done"}

\* the run was ended by the check of the page just fetched
ValidationFailed ==
    /\ pc = "raised"
    /\ hist[run] # <<>>
    /\ IsPage(Last(hist[run]))

\* the named condition an exception stands for: the code raises RuntimeError
\* for all three and tells them apart by the message
ConditionOf(exception) ==
    IF exception.exc # "RuntimeError" THEN "unnamed"
    ELSE IF exception.msg \in {QueryChangedMsg, FieldMissingMsg} THEN "SchemaDriftError"
    ELSE IF exception.msg = NoDataMsg THEN "MalformedResponseError"
    ELSE IF Len(exception.msg) >= Len(ApiErrorPrefix)
            /\ SubSeq(exception.msg, 1, Len(ApiErrorPrefix)) = ApiErrorPrefix
         THEN "ApiError"
    ELSE "unnamed"

---------------------------------------------------------------------------
(* C1: fetch_all_orders finishes exactly on the first page with zero order *)
(* summaries: when it has finished the last page it fetched is a valid     *)
(* empty page, no page is fetched after an empty page, and once an empty   *)
(* page has been checked the generator is finished.                        *)
C1_StopsExactlyOnEmptyPage ==
    run >= 1 =>
      LET pages == PageEvents(hist[run]) IN
      /\ Finished => pages # <<>> /\ EmptyValidPage(Last(pages).data)
      /\ \A i \in 1..(Len(pages) - 1) : ~EmptyValidPage(pages[i].data)
      /\ (pages # <<>> /\ EmptyValidPage(Last(pages).data) /\ pc # "validate")
            => Finished
      /\ (pages # <<>> /\ ValidPage(Last(pages).data)
            /\ Summaries(Last(pages).data) # <<>>) => ~Finished

\* a run that went through two non-empty pages and finished on the third
C1_Witness ==
    /\ run >= 1
    /\ Finished
    /\ Len(PageEvents(hist[run])) = 3
    /\ Summaries(PageEvents(hist[run])[1].data) # <<>>
    /\ Summaries(PageEvents(hist[run])[2].data) # <<>>

---------------------------------------------------------------------------
\* whether a is a prefix of b
IsPrefix(a, b) == Len(a) <= Len(b) /\ \A i \in DOMAIN a : a[i] = b[i]

\* the (offset, payload) pairs fetch_orders_persisted returned in a run
Received(log) ==
    [i \in DOMAIN PageEvents(log) |->
        <<PageEvents(log)[i].offset, PageEvents(log)[i].data>>]

\* the generator of run r ran to its end
GeneratorCompleted(r) ==
    /\ PageEvents(hist[r]) # <<>>
    /\ EmptyValidPage(Last(PageEvents(hist[r])).data)
    /\ (r = run => Finished)

(* C2: cache idempotence.  After a run whose generator ran to its end, the *)
(* next run against the same directory calls fetch_orders never, receives  *)
(* at every offset the payload the run before received, and yields the     *)
(* same order summaries in the same order.                                 *)
C2_CacheIdempotence ==
    \A r \in 2..run :
      GeneratorCompleted(r - 1) =>
        /\ NetEvents(hist[r]) = <<>>
        /\ \A i \in DOMAIN PageEvents(hist[r]) : PageEvents(hist[r])[i].cached
        /\ IsPrefix(Received(hist[r]), Received(hist[r - 1]))
        /\ IsPrefix(YieldEvents(hist[r]), YieldEvents(hist[r - 1]))
        /\ (r < run \/ pc \in {"done", "raised"}) =>
              /\ Received(hist[r]) = Received(hist[r - 1])
              /\ YieldEvents(hist[r]) = YieldEvents(hist[r - 1])
              /\ r = run => pc = "done"

\* a second run ended after a first run of three pages
C2_Witness ==
    /\ run = 2
    /\ pc = "done"
    /\ GeneratorCompleted(1)
    /\ Len(PageEvents(hist[1])) = 3
    /\ Len(YieldEvents(hist[2])) >= 2

---------------------------------------------------------------------------
\* the first message of the errors array, "" when there is none
FirstErrorMessage(d) ==
    LET errors == d.fields["errors"] IN
    IF /\ errors.t = "list"
       /\ errors.items # <<>>
       /\ errors.items[1].t = "obj"
       /\ HasKey(errors.items[1], "message")
       /\ errors.items[1].fields["message"].t = "str"
    THEN errors.items[1].fields["message"].s
    ELSE ""

\* the page just checked has a top-level errors member
ErrorsPageChecked ==
    /\ run >= 1
    /\ hist[run] # <<>>
    /\ IsPage(Last(hist[run]))
    /\ HasKey(Last(hist[run]).data, "errors")
    /\ pc # "validate"

(* C3, as claimed: a page with a top-level errors array ends the run       *)
(* before anything of it is yielded, with SchemaDriftError when the first  *)
(* message names getConsumerOrdersWithDetails and with ApiError carrying   *)
(* the message otherwise.                                                  *)
C3_ErrorsClassified ==
    ErrorsPageChecked =>
      LET message == FirstErrorMessage(Last(hist[run]).data) IN
      /\ pc = "raised"
      /\ pending = <<>>
      /\ IF StrContains(QueryName, message)
         THEN ConditionOf(raised) = "SchemaDriftError"
         ELSE /\ ConditionOf(raised) = "ApiError"
              /\ StrContains(message, raised.msg)

(* C4, as claimed: a page that fails the shape checks ends the run in one  *)
(* of the three named conditions, never in an unnamed exception.           *)
C4_NamedConditionsOnly ==
    ValidationFailed =>
      ConditionOf(raised) \in {"SchemaDriftError", "ApiError", "MalformedResponseError"}

---------------------------------------------------------------------------
\* the exports the run has written so far
ExportEvents(log) == SelectSeq(log, IsExport)

(* C5: no export is written before the fetch and normalize loop has ended  *)
(* without an exception: a step that changes an export is taken only by a  *)
(* run whose pages all passed the checks and whose generator is finished,  *)
(* and a step that ends the run with an exception leaves both exports as   *)
(* they were, none of them written by this run.                            *)
C5_NoExportBeforeLoopEnds ==
    [][ /\ (exports' # exports) =>
              /\ Finished
              /\ raised = NoException
              /\ pending = <<>>
              /\ \A i \in DOMAIN PageEvents(hist[run]) :
                    ValidPage(PageEvents(hist[run])[i].data)
        /\ (pc' = "raised") =>
              /\ exports' = exports
              /\ ExportEvents(hist'[run']) = <<>>
      ]_vars

\* a page failed its check after earlier pages had yielded orders
C5_Witness ==
    /\ ValidationFailed
    /\ Len(PageEvents(hist[run])) >= 2
    /\ rows # <<>>
    /\ DOMAIN exports = {}

---------------------------------------------------------------------------
(* C6: fetch_orders_persisted(limit, offset).  With a readable record for  *)
(* the key it returns the stored payload with was_persisted true, calls    *)
(* fetch_orders never and writes nothing; with no record for the key it    *)
(* calls fetch_orders once and, the call returning, stores the payload     *)
(* under the key, returns it with was_persisted false and leaves every     *)
(* other record as it was; distinct keys have distinct records.            *)
C6_PersistedFetch ==
    [][ (pc = "fetch" /\ pc' # "fetch") =>
          LET fn == Filename(limit, offset) IN
          /\ Readable(store, fn) =>
                /\ pc' = "validate"
                /\ data' = store[fn].doc
                /\ was_persisted' = TRUE
                /\ store' = store
                /\ hist'[run] = hist[run] \o
                      << [ev |-> "page", offset |-> offset,
                          data |-> store[fn].doc, cached |-> TRUE] >>
          /\ fn \notin DOMAIN store =>
                /\ Len(NetEvents(hist'[run])) = Len(NetEvents(hist[run])) + 1
                /\ Last(NetEvents(hist'[run])).offset = offset
                /\ pc' = "validate" =>
                      /\ was_persisted' = FALSE
                      /\ data' \in Payloads
                      /\ fn \in DOMAIN store'
                      /\ store'[fn] = [kind |-> "json", doc |-> data']
                      /\ DOMAIN store' = DOMAIN store \cup {fn}
                      /\ \A f \in DOMAIN store : store'[f] = store[f]
          /\ \A k1, k2 \in 0..(MaxPages - 1) :
                k1 # k2 => Filename(limit, k1 * limit) # Filename(limit, k2 * limit)
      ]_vars

\* one run served one page from its record and fetched and stored another
C6_Witness ==
    /\ run >= 1
    /\ \E i, j \in DOMAIN PageEvents(hist[run]) :
          /\ PageEvents(hist[run])[i].cached
          /\ ~PageEvents(hist[run])[j].cached
          /\ Readable(store, Filename(limit, PageEvents(hist[run])[i].offset))
          /\ Readable(store, Filename(limit, PageEvents(hist[run])[j].offset))

---------------------------------------------------------------------------
\* a member that is there and neither null nor empty
Present(d, key) == HasKey(d, key) /\ Truthy(d.fields[key])

\* the order summaries whose loop body ran to its end in the current run
Processed ==
    IF pc = "raised" /\ hist[run] # <<>> /\ IsYield(Last(hist[run]))
    THEN SubSeq(YieldEvents(hist[run]), 1, Len(YieldEvents(hist[run])) - 1)
    ELSE YieldEvents(hist[run])

(* C7, as claimed: every row has a non-empty order id, the orderUuid when  *)
(* present and the id otherwise, and an order summary with neither is      *)
(* skipped: it contributes no row and the run goes on with the next order. *)
C7_OrderIdNonEmptyOrSkipped ==
    run >= 1 =>
      LET yields == YieldEvents(hist[run]) IN
      /\ \A i \in DOMAIN rows : Truthy(rows[i].order_id)
      /\ \A i \in DOMAIN rows : \E k \in DOMAIN yields :
            rows[i].order_id =
                IF Present(yields[k].order, "orderUuid")
                THEN yields[k].order.fields["orderUuid"]
                ELSE yields[k].order.fields["id"]
      /\ \A k \in DOMAIN yields :
            (~Present(yields[k].order, "orderUuid") /\ ~Present(yields[k].order, "id"))
               => ~(pc = "raised" /\ k = Len(yields) /\ IsYield(Last(hist[run])))

---------------------------------------------------------------------------
\* a name of the creator record, "" when absent, null or empty
NameOf(creator, key) ==
    IF creator.t = "obj" /\ Present(creator, key) THEN creator.fields[key].s ELSE ""

\* the creator record is absent, null or has no members
NoCreator(sub_order) == ~Present(sub_order, "creator")

\* the person of a sub-order as the code resolves it: a missing first name
\* reads "Unknown", a missing last name is left out
ResolvedPerson(sub_order) ==
    LET creator == DictGet(sub_order, "creator") IN
    IF NoCreator(sub_order) THEN "Unknown"
    ELSE StrStrip((IF NameOf(creator, "firstName") = "" THEN "Unknown"
                   ELSE NameOf(creator, "firstName"))
                  \o " " \o NameOf(creator, "lastName"))

\* the person of a sub-order as claimed: "Unknown" exactly when the creator
\* or both names are missing
ClaimedPerson(sub_order) ==
    LET creator == DictGet(sub_order, "creator") IN
    IF NoCreator(sub_order) THEN "Unknown"
    ELSE IF NameOf(creator, "firstName") = "" /\ NameOf(creator, "lastName") = ""
         THEN "Unknown"
    ELSE StrStrip(NameOf(creator, "firstName") \o " " \o NameOf(creator, "lastName"))

\* the persons of the rows of the processed order summaries, by Person(_)
PersonsBy(Person(_)) ==
    Concat([k \in DOMAIN Processed |->
        LET subs == Processed[k].order.fields["orders"].items IN
        Concat([n \in DOMAIN subs |->
            [j \in DOMAIN subs[n].fields["items"].items |-> Person(subs[n])]])])

RowPersons == [i \in DOMAIN rows |-> rows[i].person]

(* C8, as claimed: the person of a sub-order is firstName, a blank and     *)
(* lastName, trimmed, and "Unknown" exactly when the creator or both names *)
(* are missing, so that a creator with only a lastName gives the lastName. *)
C8_PersonAsClaimed ==
    run >= 1 => RowPersons = PersonsBy(ClaimedPerson)

(* C8, amended: the person of a sub-order is "Unknown" when the creator is *)
(* missing; otherwise it is firstName, a blank and lastName, trimmed, with *)
(* "Unknown" in the place of a missing firstName and nothing in the place  *)
(* of a missing lastName: "Amy" for Amy without lastName, "Unknown Lee"    *)
(* for a creator with only the lastName Lee, "Unknown" without both.       *)
C8_PersonResolved ==
    run >= 1 => RowPersons = PersonsBy(ResolvedPerson)

\* rows of a creator with only a lastName, of one with only a firstName and
\* of an order without creator names have been written
C8_Witness ==
    /\ run >= 1
    /\ pc = "done"
    /\ \E k \in DOMAIN Processed :
          LET sub == Processed[k].order.fields["orders"].items[1] IN
          /\ Present(sub, "creator")
          /\ NameOf(sub.fields["creator"], "firstName") = ""
          /\ NameOf(sub.fields["creator"], "lastName") = "Lee"
    /\ rows[1].person = "Unknown Lee"
    /\ rows[2].person = "Amy"

---------------------------------------------------------------------------
\* the order summary of the example: Amy orders a Taco without extras, Bo a
\* Burrito with the extra Protein: Steak
ExampleOrder ==
    DrawnOrder(JStr("u-7"), JNum(7), DefaultStamps,
               << AmyTaco,
                  DrawnSubOrder(Creator(JStr("Bo"), JNull),
                                << DrawnItem("Burrito",
                                             JList(<< Extra("Protein", <<"Steak">>) >>)) >>) >>)

\* the cell of a person in a line of the pivot table
PivotCell(lines, n, person) ==
    lines[n][CHOOSE j \in DOMAIN lines[1] : j > 2 /\ lines[1][j] = person]

\* the (extra, option) names of an item, in source order
NamePairs(item) ==
    IF ~Present(item, "orderItemExtras") THEN <<>>
    ELSE LET extras == item.fields["orderItemExtras"].items IN
         Concat([i \in DOMAIN extras |->
            IF ~Present(extras[i], "orderItemExtraOptions") THEN <<>>
            ELSE [j \in DOMAIN extras[i].fields["orderItemExtraOptions"].items |->
                    extras[i].fields["name"].s \o ": "
                    \o extras[i].fields["orderItemExtraOptions"].items[j].fields["name"].s]])

\* the items of the processed order summaries, in source order
ProcessedItems ==
    Concat([k \in DOMAIN Processed |->
        LET subs == Processed[k].order.fields["orders"].items IN
        Concat([n \in DOMAIN subs |-> subs[n].fields["items"].items])])

(* C10, as claimed: for the example order the pivot row holds exactly      *)
(* "Taco." in column Amy and "Burrito. Protein: Steak" in column Bo; the   *)
(* options summary of every row is the join with ", " of the item's        *)
(* "extraName: optionName" pairs in source order, empty without any.       *)
C10_PivotCellsOfExample ==
    /\ (run >= 1 /\ pc # "raised") =>
          /\ Len(rows) = Len(ProcessedItems)
          /\ \A i \in DOMAIN rows :
                rows[i].options = StrJoin(", ", NamePairs(ProcessedItems[i]))
    /\ (run >= 1 /\ pc = "done" /\ YieldEvents(hist[run])[1].order = ExampleOrder) =>
          /\ PivotCell(exports[PivotName], 2, "Amy") = "Taco."
          /\ PivotCell(exports[PivotName], 2, "Bo") = "Burrito. Protein: Steak"

---------------------------------------------------------------------------
\* the persons of the header of the pivot table
HeaderPersons == SubSeq(exports[PivotName][1], 3, Len(exports[PivotName][1]))

\* the number of rows of a person
RowCount(rows_, person) == Cardinality({i \in DOMAIN rows_ : rows_[i].person = person})

\* the first row of a person
FirstRow(rows_, person) ==
    CHOOSE i \in DOMAIN rows_ :
        /\ rows_[i].person = person
        /\ \A j \in 1..(i - 1) : rows_[j].person # person

\* person p is ranked ahead of person q
RankedAhead(rows_, p, q) ==
    \/ RowCount(rows_, p) > RowCount(rows_, q)
    \/ /\ RowCount(rows_, p) = RowCount(rows_, q)
       /\ FirstRow(rows_, p) < FirstRow(rows_, q)

\* the orderings of a set of positions
RECURSIVE Orderings(_)
Orderings(positions) ==
    IF positions = {} THEN {<<>>}
    ELSE UNION {{Append(p, x) : p \in Orderings(positions \ {x})} : x \in positions}

\* the reorderings of the rows
Reorderings(rows_) ==
    {[i \in DOMAIN rows_ |-> rows_[p[i]]] : p \in Orderings(DOMAIN rows_)}

\* a reordering that keeps the first-appearance order among persons of
\* equal count (it keeps every count)
KeepsTieOrder(rows_, other) ==
    \A p, q \in {rows_[i].person : i \in DOMAIN rows_} :
        (p # q /\ RowCount(rows_, p) = RowCount(rows_, q)) =>
            (FirstRow(rows_, p) < FirstRow(rows_, q)
                <=> FirstRow(other, p) < FirstRow(other, q))

(* C9: the header of the pivot table is Date, Store and then every person  *)
(* of the rows exactly once, a person of more rows ahead of a person of    *)
(* fewer and, at equal counts, the person seen first ahead; a reordering   *)
(* of the rows that keeps the first-appearance order among persons of      *)
(* equal count gives the same columns.                                     *)
C9_PivotColumnOrder ==
    pc = "done" =>
      /\ SubSeq(exports[PivotName][1], 1, 2) = <<"Date", "Store">>
      /\ {HeaderPersons[i] : i \in DOMAIN HeaderPersons}
            = {rows[i].person : i \in DOMAIN rows}
      /\ \A i, j \in DOMAIN HeaderPersons :
            i < j => /\ HeaderPersons[i] # HeaderPersons[j]
                     /\ RankedAhead(rows, HeaderPersons[i], HeaderPersons[j])
      /\ \A other \in Reorderings(rows) :
            KeepsTieOrder(rows, other) => People(other) = HeaderPersons

\* a pivot table of three persons: one of two rows seen last, and two of
\* one row each
C9_Witness ==
    /\ pc = "done"
    /\ Len(rows) = 4
    /\ rows[1].person = "Amy"
    /\ rows[2].person = "Bo"
    /\ HeaderPersons = <<"Cy", "Amy", "Bo">>

---------------------------------------------------------------------------
\* the date of an order summary as claimed
ClaimedDate(order_cart) ==
    IF Present(order_cart, "submittedAt") THEN order_cart.fields["submittedAt"].s
    ELSE IF Present(order_cart, "createdAt") THEN order_cart.fields["createdAt"].s
    ELSE "1900-01-01T00:00:00Z"

\* an order summary with neither timestamp
NoTimestamp(order_cart) ==
    ~Present(order_cart, "submittedAt") /\ ~Present(order_cart, "createdAt")

\* the value F(order) for every item of the processed order summaries
PerItem(F(_)) ==
    Concat([k \in DOMAIN Processed |->
        LET subs == Processed[k].order.fields["orders"].items IN
        Concat([n \in DOMAIN subs |->
            [j \in DOMAIN subs[n].fields["items"].items |-> F(Processed[k].order)]])])

IsWarn(e) == e.ev = "warn"

\* the warnings a run logged, in order
WarnEvents(log) == SelectSeq(log, IsWarn)

\* the yielded order summary number k of the current run ended the run
AbortedAt(k) ==
    /\ pc = "raised"
    /\ IsYield(Last(hist[run]))
    /\ k = Len(YieldEvents(hist[run]))

FirstTen(date) == SubSeq(date, 1, 10)

(* C11: the date of every row is the submittedAt of its order summary when *)
(* present, otherwise the createdAt, otherwise "1900-01-01T00:00:00Z"; an  *)
(* order summary without timestamp is warned about once, does not end the  *)
(* run and keeps its rows; the itemized export shows the first 10          *)
(* characters of the date, "2023-05-01" for createdAt 2023-05-01T12:00:00Z *)
(* without submittedAt.                                                    *)
C11_DateResolved ==
    run >= 1 =>
      LET yields == YieldEvents(hist[run])
          unstamped == SelectSeq(Processed, LAMBDA e : NoTimestamp(e.order)) IN
      /\ [i \in DOMAIN rows |-> rows[i].date] = PerItem(ClaimedDate)
      /\ \A k \in DOMAIN yields : NoTimestamp(yields[k].order) => ~AbortedAt(k)
      /\ Len(WarnEvents(hist[run])) = Len(unstamped)
      /\ CsvName \in DOMAIN exports /\ pc \in {"write_pivot", "done"} =>
            /\ Len(exports[CsvName]) = Len(rows) + 1
            /\ \A i \in DOMAIN rows :
                  exports[CsvName][i + 1][1] = FirstTen(PerItem(ClaimedDate)[i])
            /\ \A i \in DOMAIN rows :
                  PerItem(LAMBDA o : DictGet(o, "submittedAt"))[i] = JNull
                  /\ PerItem(LAMBDA o : DictGet(o, "createdAt"))[i]
                        = JStr("2023-05-01T12:00:00Z")
                  => exports[CsvName][i + 1][1] = "2023-05-01"

\* an order summary without timestamp was warned about and its row written
\* with the placeholder date
C11_Witness ==
    /\ pc = "done"
    /\ NoTimestamp(Processed[1].order)
    /\ Len(WarnEvents(hist[run])) = 1
    /\ rows[1].date = "1900-01-01T00:00:00Z"
    /\ exports[CsvName][2][1] = "1900-01-01"

---------------------------------------------------------------------------
\* the (order summary, sub-order, item) triples of a sequence of order
\* summaries: by order, then sub-order, then item
Triples(order_carts) ==
    Concat([k \in DOMAIN order_carts |->
        LET subs == order_carts[k].fields["orders"].items IN
        Concat([n \in DOMAIN subs |->
            [j \in DOMAIN subs[n].fields["items"].items |->
                << order_carts[k], subs[n], subs[n].fields["items"].items[j] >>]])])

\* the order summaries of the valid pages a run fetched, in page order
FetchedSummaries(log) ==
    Concat([k \in DOMAIN PageEvents(log) |->
        IF ValidPage(PageEvents(log)[k].data)
        THEN Summaries(PageEvents(log)[k].data) ELSE <<>>])

\* the line of the itemized table for one item
ItemLine(triple) ==
    << FirstTen(ClaimedDate(triple[1])),
       triple[1].fields["store"].fields["name"].s,
       ResolvedPerson(triple[2]),
       triple[3].fields["name"].s,
       StrJoin(", ", NamePairs(triple[3])) >>

(* C12: execute holds exactly one row per item of the order summaries it   *)
(* has processed, in the order of the pages, of the order summaries in the *)
(* page, of the sub-orders in the order and of the items in the sub-order; *)
(* the itemized table has one line per row below the header, in that order.*)
C12_OneRowPerItemInOrder ==
    run >= 1 =>
      LET done == [k \in DOMAIN Processed |-> Processed[k].order] IN
      /\ Len(rows) = Len(Triples(done))
      /\ \A i \in DOMAIN rows :
            << rows[i].store, rows[i].person, rows[i].item >>
               = SubSeq(ItemLine(Triples(done)[i]), 2, 4)
      /\ IsPrefix(done, FetchedSummaries(hist[run]))
      /\ pc \in {"write_pivot", "done"} =>
            LET fetched == Triples(FetchedSummaries(hist[run])) IN
            /\ Len(exports[CsvName]) = Len(fetched) + 1
            /\ \A i \in DOMAIN fetched :
                  exports[CsvName][i + 1] = ItemLine(fetched[i])

\* a run of two pages, the first of a group order of two sub-orders and an
\* order of two items, has written its six lines
C12_Witness ==
    /\ pc = "done"
    /\ Len(PageEvents(hist[run])) = 3
    /\ PageEvents(hist[run])[1].data = FullPage
    /\ PageEvents(hist[run])[2].data = ShortPage
    /\ Len(exports[CsvName]) = 7
    /\ exports[CsvName][3][4] = "Burrito"
    /\ exports[CsvName][5][4] = "Taco"

---------------------------------------------------------------------------
\* the page fetched last in the current run has been checked
PageChecked ==
    /\ run >= 1
    /\ hist[run] # <<>>
    /\ IsPage(Last(hist[run]))
    /\ pc # "validate"

\* data is there without a list under getConsumerOrdersWithDetails: the
\* member is absent or null
FieldAbsentOrNull(d) ==
    /\ HasKey(d, "data")
    /\ \/ d.fields["data"].t # "obj"
       \/ DictGet(d.fields["data"], QueryName) = JNull

(* C13, as claimed: a page without data and without errors ends the run in *)
(* MalformedResponseError; a page with data whose expected field is absent *)
(* or null ends it in SchemaDriftError; errors is looked at before data,   *)
(* so a page with errors and without data ends in the condition of its     *)
(* errors; a page with an empty list ends the sequence without error.      *)
C13_ShapeChecksInOrder ==
    PageChecked =>
      LET d == Last(hist[run]).data IN
      /\ (~HasKey(d, "errors") /\ ~HasKey(d, "data"))
            => pc = "raised" /\ ConditionOf(raised) = "MalformedResponseError"
      /\ (~HasKey(d, "errors") /\ FieldAbsentOrNull(d))
            => pc = "raised" /\ ConditionOf(raised) = "SchemaDriftError"
      /\ (HasKey(d, "errors") /\ ~HasKey(d, "data"))
            => pc = "raised" /\ ConditionOf(raised) \in {"ApiError", "SchemaDriftError"}
      /\ EmptyValidPage(d) => pc = "write_csv" /\ raised = NoException

---------------------------------------------------------------------------
\* the pause of fetch_all_orders: one second
IsPause(e) == e.ev = "sleep" /\ e.ms = 1000

\* the position in the log of the first fetch after position i, one past
\* the end of the log when there is none
NextFetch(log, i) ==
    IF \E j \in (i + 1)..Len(log) : log[j].ev \in {"net", "page"}
    THEN CHOOSE j \in (i + 1)..Len(log) :
            /\ log[j].ev \in {"net", "page"}
            /\ \A k \in (i + 1)..(j - 1) : log[k].ev \notin {"net", "page"}
    ELSE Len(log) + 1

\* the number of pauses between position i and the next fetch
PausesAfter(log, i) ==
    Cardinality({k \in (i + 1)..(NextFetch(log, i) - 1) : IsPause(log[k])})

(* C14: in every run, between a page and the next fetch exactly one pause  *)
(* of one second is taken when the page came from the network and none     *)
(* when it came from the cache; no pause follows an empty page or a page   *)
(* that fails the checks, and no pause precedes the summaries of its page. *)
C14_PauseOnlyAfterNetworkPage ==
    \A r \in 1..run :
      LET log == hist[r] IN
      \A i \in DOMAIN log : IsPage(log[i]) =>
        /\ NextFetch(log, i) <= Len(log) =>
              PausesAfter(log, i) = (IF log[i].cached THEN 0 ELSE 1)
        /\ log[i].cached => PausesAfter(log, i) = 0
        /\ (~ValidPage(log[i].data) \/ EmptyValidPage(log[i].data))
              => PausesAfter(log, i) = 0
        /\ \A k \in (i + 1)..(NextFetch(log, i) - 1) :
              IsPause(log[k]) =>
                 /\ Len(SelectSeq(SubSeq(log, i + 1, k - 1), IsYield))
                       = Len(Summaries(log[i].data))
                 /\ \A n \in (k + 1)..(NextFetch(log, i) - 1) : ~IsYield(log[n])

\* a run whose first page came from the cache and whose second page came
\* from the network has fetched a third page after one pause
C14_Witness ==
    /\ run = 2
    /\ Len(PageEvents(hist[run])) = 3
    /\ PageEvents(hist[run])[1].cached
    /\ ~PageEvents(hist[run])[2].cached
    /\ Len(SelectSeq(hist[run], IsPause)) = 1

---------------------------------------------------------------------------
\* the order summaries yielded between position i of the log and the next
\* fetch, in order
YieldedAfter(log, i) ==
    LET between == SelectSeq(SubSeq(log, i + 1, NextFetch(log, i) - 1), IsYield) IN
    [k \in DOMAIN between |-> between[k].order]

(* C15: in every run the pages are fetched at the offsets 0, 20, 40, ...   *)
(* in this order, each offset once, whatever the number of summaries of a  *)
(* page; the next page is requested only after a valid page all of whose   *)
(* summaries have been yielded; the summaries are yielded page by page in  *)
(* the order received.                                                     *)
C15_SequentialPaging ==
    \A r \in 1..run :
      LET log == hist[r]
          pages == PageEvents(log)
          calls == NetEvents(log) IN
      /\ \A j \in DOMAIN pages : pages[j].offset = 20 * (j - 1)
      /\ \A j \in DOMAIN calls :
            /\ calls[j].offset % 20 = 0
            /\ \A n \in DOMAIN calls : n < j => calls[n].offset < calls[j].offset
      /\ \A i \in DOMAIN log :
            /\ IsNet(log[i]) =>
                  log[i].offset = 20 * Len(PageEvents(SubSeq(log, 1, i)))
            /\ IsPage(log[i]) =>
                  IF NextFetch(log, i) <= Len(log)
                  THEN /\ ValidPage(log[i].data)
                       /\ YieldedAfter(log, i) = Summaries(log[i].data)
                       /\ YieldedAfter(log, i) # <<>>
                  ELSE YieldedAfter(log, i) # <<>> =>
                          /\ ValidPage(log[i].data)
                          /\ IsPrefix(YieldedAfter(log, i), Summaries(log[i].data))
      /\ \A i \in DOMAIN log : IsYield(log[i]) => \E j \in 1..(i - 1) : IsPage(log[j])

\* a run has fetched the page at offset 40 after a page of one summary and
\* a page of two
C15_Witness ==
    /\ run >= 1
    /\ Len(PageEvents(hist[run])) = 3
    /\ PageEvents(hist[run])[1].data = ShortPage
    /\ PageEvents(hist[run])[2].data = FullPage
    /\ PageEvents(hist[run])[3].offset = 40
    /\ Len(YieldEvents(hist[run])) = 3

---------------------------------------------------------------------------
\* the key has a record that cannot be loaded
BadRecord(dir, filename) == filename \in DOMAIN dir /\ ~Readable(dir, filename)

(* C16, as claimed: fetch_orders_persisted(limit, offset) with a record    *)
(* for the key that is corrupt or unreadable calls fetch_orders and, the   *)
(* call returning a payload, does not end the run: it returns the payload  *)
(* with was_persisted false and has overwritten the record with it, so     *)
(* that the next lookup of the key is a hit.                               *)
C16_BadRecordIsMiss ==
    [][ (pc = "fetch" /\ pc' # "fetch" /\ BadRecord(store, Filename(limit, offset))) =>
          LET fn == Filename(limit, offset) IN
          /\ Len(NetEvents(hist'[run])) = Len(NetEvents(hist[run])) + 1
          /\ raised' # TransportError =>
                /\ pc' = "validate"
                /\ raised' = NoException
                /\ was_persisted' = FALSE
                /\ data' \in Payloads
                /\ Readable(store', fn)
                /\ JsonLoad(store', fn) = data'
      ]_vars

---------------------------------------------------------------------------
(* The exports of a run whose loop has ended, for rows of several items    *)
(* and of persons of any name: a creator's firstName is free text.         *)

DrawnNames == {"Amy", "date", "store"}

DrawnRowItems ==
    { [item |-> "Taco", options |-> ""],
      [item |-> "Burrito", options |-> "Protein: Steak"] }

DrawnNamedRows ==
    { [order_id |-> o.order_id, date |-> o.date, store |-> o.store,
       person |-> p, item |-> it.item, options |-> it.options] :
        o \in DrawnRowOrders, p \in DrawnNames, it \in DrawnRowItems }

InitPivot ==
    /\ \E n \in 0..MaxRows : rows \in [1..n -> DrawnNamedRows]
    /\ store = (Filename(limit, 0) :> JsonDump(EmptyPage))
    /\ exports = [f \in {} |-> <<>>]
    /\ pc = "write_csv"
    /\ run = 1
    /\ offset = 0
    /\ data = EmptyPage
    /\ was_persisted = TRUE
    /\ pending = <<>>
    /\ raised = NoException
    /\ hist = << << [ev |-> "page", offset |-> 0, data |-> EmptyPage, cached |-> TRUE] >> >>

NextPivot ==
    \/ WriteCsv
    \/ WritePivot

SpecPivot == InitPivot /\ [][NextPivot]_vars

---------------------------------------------------------------------------
\* the distinct order ids of the rows, in order of first appearance
RECURSIVE OrderIdsOf(_)
OrderIdsOf(rows_) ==
    IF rows_ = <<>> THEN <<>>
    ELSE LET before == OrderIdsOf(SubSeq(rows_, 1, Len(rows_) - 1))
             id == rows_[Len(rows_)].order_id
         IN  IF \E i \in DOMAIN before : before[i] = id THEN before
             ELSE Append(before, id)

\* the positions of the rows of a person in an order
RowsOf(rows_, id, person) ==
    {i \in DOMAIN rows_ : rows_[i].order_id = id /\ rows_[i].person = person}

\* the largest member of a non-empty set of numbers
Max(S) == CHOOSE x \in S : \A y \in S : y <= x

(* C17, as claimed: the pivot table has one line per distinct order id of  *)
(* the rows below its header, in order of first appearance of the order    *)
(* ids; in the line of an order the cell of a person holds "item. options" *)
(* of the last row of that person in the order, and "" when the person has *)
(* no row in the order.                                                    *)
C17_PivotRowsAndCells ==
    pc = "done" =>
      LET lines == exports[PivotName]
          ids == OrderIdsOf(rows) IN
      /\ Len(lines) = Len(ids) + 1
      /\ \A n \in DOMAIN ids : \A i \in DOMAIN rows :
            LET person == rows[i].person
                mine == RowsOf(rows, ids[n], person) IN
            PivotCell(lines, n + 1, person) =
               IF mine = {} THEN ""
               ELSE rows[Max(mine)].item \o ". " \o rows[Max(mine)].options

---------------------------------------------------------------------------
\* the position of the first row of an order
FirstRowOf(rows_, id) ==
    CHOOSE i \in DOMAIN rows_ :
        rows_[i].order_id = id /\ \A k \in 1..(i - 1) : rows_[k].order_id # id

(* C18, as claimed: in every line of the pivot table the Date and Store    *)
(* cells are the first 10 characters of the date and the store of the      *)
(* line's order, whatever the persons of the rows are named.               *)
C18_DateAndStoreKept ==
    pc = "done" =>
      LET lines == exports[PivotName]
          ids == OrderIdsOf(rows) IN
      \A n \in DOMAIN ids :
         /\ lines[n + 1][1] = FirstTen(rows[FirstRowOf(rows, ids[n])].date)
         /\ lines[n + 1][2] = rows[FirstRowOf(rows, ids[n])].store

---------------------------------------------------------------------------
\* the calls of fetch_orders for an offset in a log
CallsFor(log, k) == SelectSeq(log, LAMBDA e : IsNet(e) /\ e.offset = k)

(* C19: when fetch_orders fails for the page at offset k the run ends at   *)
(* once: the call was the only one for k in the run, the cache is as it    *)
(* was before the call, so that no record was made or changed for k or for *)
(* an earlier offset, and the run has written no export and does nothing   *)
(* further.                                                                *)
C19_TransportFailureIsFatal ==
    [][ /\ (pc = "fetch" /\ raised' = TransportError) =>
              /\ pc' = "raised"
              /\ store' = store
              /\ exports' = exports
              /\ hist'[run] = Append(hist[run], [ev |-> "net", offset |-> offset])
              /\ Len(CallsFor(hist'[run], offset)) = 1
              /\ ExportEvents(hist'[run]) = <<>>
        /\ (pc = "raised" /\ raised = TransportError) =>
              /\ run' = run + 1
              /\ store' = store
              /\ exports' = exports
              /\ hist'[run] = hist[run]
      ]_vars

\* a run has ended in a transport failure on its second page, with the
\* record of the first page in the cache and none for the second
C19_Witness ==
    /\ pc = "raised"
    /\ raised = TransportError
    /\ offset = 20
    /\ Readable(store, Filename(limit, 0))
    /\ Filename(limit, 20) \notin DOMAIN store
    /\ Last(hist[run]) = [ev |-> "net", offset |-> 20]

---------------------------------------------------------------------------
\* the (offset, payload) pairs of the pages of a log, cached or not
Pages(log) ==
    [j \in DOMAIN PageEvents(log) |->
        << PageEvents(log)[j].offset, PageEvents(log)[j].data >>]

\* a finished run was ended by the check of its last page
EndedInValidation(log) ==
    /\ log # <<>>
    /\ IsPage(Last(log))
    /\ ~ValidPage(Last(log).data)

(* C20: a page obtained from the network has its record in the cache from *)
(* the moment fetch_orders_persisted returns it, before it is checked and  *)
(* whether it passes the checks or not, the empty final page included; a   *)
(* later run gets every page an earlier run obtained from the cache, with  *)
(* the same payload and without a call of fetch_orders for its offset; a   *)
(* run after one that ended in a failed check calls fetch_orders never and *)
(* ends in the same exception on the same page.                            *)
C20_PersistedBeforeValidated ==
    /\ \A r \in 1..run : \A i \in DOMAIN hist[r] :
          IsPage(hist[r][i]) =>
             /\ Readable(store, Filename(20, hist[r][i].offset))
             /\ JsonLoad(store, Filename(20, hist[r][i].offset)) = hist[r][i].data
    /\ \A r1, r2 \in 1..run : r1 < r2 =>
          /\ \A i \in DOMAIN hist[r1] : IsPage(hist[r1][i]) =>
                /\ CallsFor(hist[r2], hist[r1][i].offset) = <<>>
                /\ \A j \in DOMAIN hist[r2] :
                      (IsPage(hist[r2][j]) /\ hist[r2][j].offset = hist[r1][i].offset)
                         => hist[r2][j].cached /\ hist[r2][j].data = hist[r1][i].data
          /\ EndedInValidation(hist[r1]) =>
                /\ NetEvents(hist[r2]) = <<>>
                /\ IsPrefix(Pages(hist[r2]), Pages(hist[r1]))
                /\ (r2 = run /\ Len(Pages(hist[r2])) = Len(Pages(hist[r1]))
                    /\ pc # "validate")
                      => /\ pc = "raised"
                         /\ Last(hist[r2]).offset = Last(hist[r1]).offset
                         /\ raised = ValidatePage(Last(hist[r1]).data).exception

\* a run ended in the API error of its second page, which it had fetched,
\* and the next run has ended in the same error without a call
C20_Witness ==
    /\ run = 2
    /\ pc = "raised"
    /\ Len(PageEvents(hist[1])) = 2
    /\ ~Last(hist[1]).cached
    /\ Last(hist[1]).data = ErrorsPage(<<"Rate limit exceeded">>)
    /\ Len(PageEvents(hist[2])) = 2
    /\ NetEvents(hist[2]) = <<>>
    /\ raised = RuntimeError(ApiErrorPrefix \o "Rate limit exceeded")

============================================================================
